---- MODULE Spec2Model ----
(***************************************************************************)
(* A model of wikipedia_scraper_tool.py: the population pipeline           *)
(* (scrape_wiki_tables, clean_and_analyze_population_data,                 *)
(* create_population_chart), the section analyzer (analyze_page_content,   *)
(* count_attributes_in_section) and the interactive loop of __main__.      *)
(*                                                                         *)
(* Text is a sequence of one-character strings, so that stripping,         *)
(* substring tests, regular-expression removal and numeric parsing are     *)
(* computed character by character.                                        *)
(*                                                                         *)
(* The environment is fixed when the process starts: what the population   *)
(* URL serves (population_page), whether the charts directory can be       *)
(* written (fs_writable) and the lines the user is going to type (stdin),  *)
(* each line with the page its text resolves to when it is used as a URL.  *)
(* The console is interactive: input() blocks while no line is available.  *)
(***************************************************************************)
EXTENDS Integers, Sequences, FiniteSets, TLC

VARIABLES
    pc,                 \* position in __main__ (the line about to run)
    population_page,    \* environment: the response served at population_url
    fs_writable,        \* environment: plt.savefig can write the PNG
    stdin,              \* environment: the lines not yet read by input()
    population_df,      \* __main__.population_df
    top_10_countries,   \* __main__.top_10_countries: <<>> is None, <<df>> a DataFrame
    decision,           \* __main__.decision
    url,                \* __main__.url: the line read at the URL prompt
    out,                \* standard output, one entry per print (or prompt)
    country_col_name,   \* create_population_chart's local: <<>> is None, <<name>> a label
    chart_file,         \* this run wrote charts/top_10_population.png
    chart_shown         \* plt.show() displayed the figure

vars == <<pc, population_page, fs_writable, stdin, population_df,
          top_10_countries, decision, url, out, country_col_name,
          chart_file, chart_shown>>

\* ------------------------------------------------------------------ bounds

\* Tables on the population page.
MaxTables == 3
\* Rows of a table whose population cells are short numerals.
MaxRows == 11
\* Rows of a table whose population cells are drawn from the sample texts.
MaxSampleRows == 4
\* Characters of a free-form population cell.
MaxText == 6
\* Columns of a table with freely chosen column labels.
MaxCols == 3
\* Lines the user types in a whole session.
MaxLines == 4
\* Section headings on an analyzed page.
MaxHeadings == 2
\* Paragraphs in a content block.
MaxParas == 1

\* --------------------------------------------------------- text helpers

\* Sequences over S of length at most n.
SeqUpTo(S, n) == UNION {[1..k -> S] : k \in 0..n}

RECURSIVE SumSeq(_)
SumSeq(s) == IF s = <<>> THEN 0 ELSE Head(s) + SumSeq(Tail(s))

Digits == <<"0", "1", "2", "3", "4", "5", "6", "7", "8", "9">>

IsDigit(c) == \E i \in 1..Len(Digits) : Digits[i] = c

DigitVal(c) == (CHOOSE i \in 1..Len(Digits) : Digits[i] = c) - 1

\* str(n) for a non-negative int.
RECURSIVE IntToStr(_)
IntToStr(n) ==
    IF n < 10 THEN <<Digits[n + 1]>>
    ELSE Append(IntToStr(n \div 10), Digits[(n % 10) + 1])

\* Python's `sub in s` for strings.
Contains(s, sub) ==
    \E i \in 1..(Len(s) - Len(sub) + 1) : SubSeq(s, i, i + Len(sub) - 1) = sub

IsSpace(c) == c = " "

\* str.strip(): leading and trailing whitespace removed.
RECURSIVE LStrip(_)
LStrip(s) == IF s # <<>> /\ IsSpace(Head(s)) THEN LStrip(Tail(s)) ELSE s

RECURSIVE RStrip(_)
RStrip(s) ==
    IF s # <<>> /\ IsSpace(s[Len(s)]) THEN RStrip(SubSeq(s, 1, Len(s) - 1)) ELSE s

Strip(s) == RStrip(LStrip(s))

\* A variant of Lower: the text unchanged (the comparison without .lower()).
Lower_unchanged(s) == s

\* str.lower() on the letters the model uses.
LowerChar(c) ==
    CASE c = "Y" -> "y"
      [] c = "N" -> "n"
      [] c = "E" -> "e"
      [] c = "S" -> "s"
      [] OTHER -> c

Lower(s) == [i \in 1..Len(s) |-> LowerChar(s[i])]

\* Column names and the literals the code tests them against.
Population == <<"P", "o", "p", "u", "l", "a", "t", "i", "o", "n">>
Country == <<"C", "o", "u", "n", "t", "r", "y">>
Dependency == <<"D", "e", "p", "e", "n", "d", "e", "n", "c", "y">>
Region == <<"R", "e", "g", "i", "o", "n">>
Date == <<"D", "a", "t", "e">>

\* ------------------------------------------------------------ exceptions

\* The subclasses of requests.exceptions.RequestException the model raises.
IsRequestException(e) ==
    e \in {"ConnectionError", "Timeout", "HTTPError", "MissingSchema"}

\* A variant of IsException: only the request errors are caught.
IsException_requests_only(e) == IsRequestException(e)

\* `except Exception`: every exception class the model raises derives from it.
IsException(e) ==
    e \in {"ConnectionError", "Timeout", "HTTPError", "MissingSchema",
           "ValueError", "AttributeError", "RecursionError", "OSError"}

\* One entry of standard output: the message, and the text and the numbers
\* an f-string interpolates into it.
Line(msg) == [msg |-> msg, name |-> <<>>, args |-> <<>>]

LineWith(msg, name, args) == [msg |-> msg, name |-> name, args |-> args]

\* ------------------------------------------------------------ DataFrames

\* A population cell: a string (t = "str", s), an int of an int64 column
\* (t = "num", n) or a missing value (t = "nan").
StrCell(s) == [t |-> "str", s |-> s, n |-> 0]

NumCell(n) == [t |-> "num", s |-> <<>>, n |-> n]

NanCell == [t |-> "nan", s |-> <<>>, n |-> 0]

\* A DataFrame: the column labels, each column's dtype, and the rows, each
\* with its index label and its cell in the "Population" column (the other
\* cells are not modelled: only their column's dtype is read).
DataFrame(columns, dtypes, rows) ==
    [columns |-> columns, dtypes |-> dtypes, rows |-> rows]

\* pd.DataFrame()
EmptyDataFrame == DataFrame(<<>>, <<>>, <<>>)

\* DataFrame.empty: some axis has length 0.
IsEmpty(df) == Len(df.columns) = 0 \/ Len(df.rows) = 0

\* `name in df.columns`
HasColumn(df, name) == \E i \in 1..Len(df.columns) : df.columns[i] = name

ColumnIndex(df, name) == CHOOSE i \in 1..Len(df.columns) : df.columns[i] = name

\* ---------------------------------------------------- scrape_wiki_tables

\* A parsed table is [colkind, columns, dtypes, cells]: colkind is "str" for
\* string labels, "int" for the integer labels of a table without header cells
\* and "multi" for the MultiIndex of a table with several header rows; cells
\* are the cells of the column whose stripped label is "Population" when there
\* is one, and otherwise stand for the rows only.
TableFrame(table) ==
    DataFrame([i \in 1..Len(table.columns) |-> Strip(table.columns[i])],
              table.dtypes,
              [i \in 1..Len(table.cells) |-> [idx |-> i - 1, pop |-> table.cells[i]]])

\* The loop over the tables, from table i on: the Index.str accessor raises
\* AttributeError unless the labels are strings.
RECURSIVE scan_tables(_, _)
scan_tables(tables, i) ==
    IF i > Len(tables)
    THEN [exc |-> "", ret |-> EmptyDataFrame,
          out |-> <<Line("Could not find a table with the 'Population' column.")>>]
    ELSE IF tables[i].colkind # "str"
    THEN [exc |-> "AttributeError", ret |-> EmptyDataFrame, out |-> <<>>]
    ELSE IF HasColumn(TableFrame(tables[i]), Population)
    THEN [exc |-> "", ret |-> TableFrame(tables[i]),
          out |-> <<Line("Found the correct table with the 'Population' column.")>>]
    ELSE scan_tables(tables, i + 1)

\* The body of the try block.
scrape_try(page) ==
    IF page.fetch # "ok"
    THEN [exc |-> page.fetch, ret |-> EmptyDataFrame, out |-> <<>>]
    ELSE IF page.tables = <<>>
    THEN [exc |-> "ValueError", ret |-> EmptyDataFrame, out |-> <<>>]
    ELSE LET found == LineWith("Successfully found table(s) on the page.",
                               <<>>, <<Len(page.tables)>>)
             r == scan_tables(page.tables, 1)
         IN  [r EXCEPT !.out = <<found>> \o r.out]

scrape_wiki_tables(page) ==
    LET start == <<Line("Attempting to scrape tables from:")>>
        r == scrape_try(page)
    IN  IF r.exc = ""
        THEN [r EXCEPT !.out = start \o r.out]
        ELSE IF IsRequestException(r.exc)
        THEN [exc |-> "", ret |-> EmptyDataFrame,
              out |-> start \o r.out \o <<Line("Error accessing the URL:")>>]
        ELSE IF IsException(r.exc)
        THEN [exc |-> "", ret |-> EmptyDataFrame,
              out |-> start \o r.out \o <<Line("Error scraping tables:")>>]
        ELSE [r EXCEPT !.out = start \o r.out]

\* ------------------------------------- clean_and_analyze_population_data

\* .astype(str)
AsStr(cell) ==
    CASE cell.t = "num" -> IntToStr(cell.n)
      [] cell.t = "nan" -> <<"n", "a", "n">>
      [] OTHER -> cell.s

\* .str.replace(',', '', regex=True)
RECURSIVE RemoveCommas(_)
RemoveCommas(s) ==
    IF s = <<>> THEN <<>>
    ELSE IF Head(s) = "," THEN RemoveCommas(Tail(s))
    ELSE <<Head(s)>> \o RemoveCommas(Tail(s))

\* The first position after i that holds no digit (Len(s) + 1 when none).
RECURSIVE SkipDigits(_, _)
SkipDigits(s, i) ==
    IF i <= Len(s) /\ IsDigit(s[i]) THEN SkipDigits(s, i + 1) ELSE i

\* .str.replace(r'\[\d+\]', '', regex=True): every leftmost, non-overlapping
\* match, found in one scan from position i.
RECURSIVE RemoveFootnotes(_, _)
RemoveFootnotes(s, i) ==
    IF i > Len(s) THEN <<>>
    ELSE LET j == SkipDigits(s, i + 1)
         IN  IF s[i] = "[" /\ j > i + 1 /\ j <= Len(s) /\ s[j] = "]"
             THEN RemoveFootnotes(s, j + 1)
             ELSE <<s[i]>> \o RemoveFootnotes(s, i + 1)

RECURSIVE DecimalValue(_)
DecimalValue(s) ==
    IF s = <<>> THEN 0
    ELSE 10 * DecimalValue(SubSeq(s, 1, Len(s) - 1)) + DigitVal(s[Len(s)])

\* pd.to_numeric(..., errors='coerce') on the model's alphabet (digits, comma,
\* brackets, letters; no sign, point, exponent or blank): <<v>> for a numeral,
\* <<>> for NaN.
ToNumeric(s) ==
    IF s # <<>> /\ \A i \in 1..Len(s) : IsDigit(s[i])
    THEN <<DecimalValue(s)>>
    ELSE <<>>

\* A variant of CleanCell: the markers removed before the commas.
CleanCell_markers_first(cell) == ToNumeric(RemoveCommas(RemoveFootnotes(AsStr(cell), 1)))

\* Lines 41-44 on one cell.
CleanCell(cell) == ToNumeric(RemoveFootnotes(RemoveCommas(AsStr(cell)), 1))

\* A variant of CleanRows: the cells that are no number become 0 and the
\* row is kept.
RECURSIVE CleanRows_keep(_)
CleanRows_keep(rows) ==
    IF rows = <<>> THEN <<>>
    ELSE LET v == CleanCell(Head(rows).pop)
         IN  <<[idx |-> Head(rows).idx,
                pop |-> NumCell(IF v = <<>> THEN 0 ELSE v[1])]>>
             \o CleanRows_keep(Tail(rows))

\* Lines 41-45 on the rows: the column made numeric, then dropna.
RECURSIVE CleanRows(_)
CleanRows(rows) ==
    IF rows = <<>> THEN <<>>
    ELSE LET v == CleanCell(Head(rows).pop)
         IN  IF v = <<>> THEN CleanRows(Tail(rows))
             ELSE <<[idx |-> Head(rows).idx, pop |-> NumCell(v[1])]>>
                  \o CleanRows(Tail(rows))

\* The rows in descending order of value, equal values in their given order.
RECURSIVE InsertDesc(_, _)
InsertDesc(row, sorted) ==
    IF sorted = <<>> THEN <<row>>
    ELSE IF row.pop.n > Head(sorted).pop.n THEN <<row>> \o sorted
    ELSE <<Head(sorted)>> \o InsertDesc(row, Tail(sorted))

RECURSIVE SortDesc(_)
SortDesc(rows) ==
    IF rows = <<>> THEN <<>>
    ELSE InsertDesc(rows[Len(rows)], SortDesc(SubSeq(rows, 1, Len(rows) - 1)))

\* A variant of nlargest: the first n rows as they stand (DataFrame.head).
nlargest_head(rows, n) == SubSeq(rows, 1, IF Len(rows) < n THEN Len(rows) ELSE n)

\* DataFrame.nlargest(n, 'Population') (keep='first').
nlargest(rows, n) ==
    LET sorted == SortDesc(rows)
    IN  SubSeq(sorted, 1, IF Len(sorted) < n THEN Len(sorted) ELSE n)

\* The number nlargest is called with.
TopN == 10

\* The dtype pd.to_numeric leaves: int64 when every cell parsed, float64 when
\* some became NaN.
NumericDtype(rows) ==
    IF \A i \in 1..Len(rows) : CleanCell(rows[i].pop) # <<>>
    THEN "int64" ELSE "float64"

\* The body of the try block: ret is the ranked subset, df the argument as the
\* in-place assignments and dropna leave it, mean the <<sum, count>> whose
\* quotient is printed (nan when count is 0).
clean_try(df) ==
    LET k == ColumnIndex(df, Population)
        cleaned == DataFrame(df.columns,
                             [df.dtypes EXCEPT ![k] = NumericDtype(df.rows)],
                             CleanRows(df.rows))
        values == [i \in 1..Len(cleaned.rows) |-> cleaned.rows[i].pop.n]
        top_10 == [cleaned EXCEPT !.rows = nlargest(cleaned.rows, TopN)]
    IN  [exc |-> "", ret |-> <<top_10>>, df |-> cleaned,
         out |-> <<Line("Data successfully cleaned and converted to numeric."),
                   LineWith("The average population is:", <<>>,
                            <<SumSeq(values), Len(values)>>)>>]

clean_and_analyze_population_data(df) ==
    IF ~HasColumn(df, Population)
    THEN [exc |-> "", ret |-> <<>>, df |-> df,
          out |-> <<Line("Data is not a valid DataFrame or 'Population' column is missing.")>>]
    ELSE LET r == clean_try(df)
         IN  IF r.exc = "" THEN r
             ELSE IF IsException(r.exc)
             THEN [exc |-> "", ret |-> <<>>, df |-> r.df,
                   out |-> r.out \o <<Line("Error during data cleaning or analysis:")>>]
             ELSE r

\* ------------------------------------------------ create_population_chart

\* Lines 67-70: the first column whose name contains "Country" or "Dependency".
RECURSIVE first_country_col(_, _)
first_country_col(df, i) ==
    IF i > Len(df.columns) THEN <<>>
    ELSE IF Contains(df.columns[i], Country) \/ Contains(df.columns[i], Dependency)
    THEN <<df.columns[i]>>
    ELSE first_country_col(df, i + 1)

\* Lines 73-76: the first object column named after none of the three words.
RECURSIVE first_text_col(_, _)
first_text_col(df, i) ==
    IF i > Len(df.columns) THEN <<>>
    ELSE IF /\ df.dtypes[i] = "object"
            /\ ~Contains(df.columns[i], Population)
            /\ ~Contains(df.columns[i], Region)
            /\ ~Contains(df.columns[i], Date)
    THEN <<df.columns[i]>>
    ELSE first_text_col(df, i + 1)

\* A variant of select_label: the object columns are tried first.
select_label_text_first(df) ==
    IF first_text_col(df, 1) # <<>>
    THEN first_text_col(df, 1)
    ELSE first_country_col(df, 1)

\* Lines 66-76: country_col_name, <<>> for None.
select_label(df) ==
    IF first_country_col(df, 1) # <<>>
    THEN first_country_col(df, 1)
    ELSE first_text_col(df, 1)

\* The body of the try block: drawing raises nothing in the model, writing
\* the PNG (os.makedirs, plt.savefig) raises OSError when it cannot be written.
chart_try(df, writable) ==
    LET label == select_label(df)
    IN  IF label = <<>>
        THEN [exc |-> "", label |-> label, saved |-> FALSE, shown |-> FALSE,
              out |-> <<Line("Error creating chart: Could not find a suitable column for countries.")>>]
        ELSE IF ~writable
        THEN [exc |-> "OSError", label |-> label, saved |-> FALSE, shown |-> FALSE,
              out |-> <<>>]
        ELSE [exc |-> "", label |-> label, saved |-> TRUE, shown |-> TRUE,
              out |-> <<Line("Chart saved to:")>>]

\* A variant of create_population_chart: only None is refused, an empty
\* dataset is drawn.
create_population_chart_unchecked(opt, writable) ==
    IF opt = <<>>
    THEN [exc |-> "", label |-> <<>>, saved |-> FALSE, shown |-> FALSE,
          out |-> <<Line("No data to plot.")>>]
    ELSE LET r == chart_try(opt[1], writable)
         IN  IF r.exc = "" THEN r
             ELSE IF IsException(r.exc)
             THEN [r EXCEPT !.exc = "", !.out = r.out \o <<Line("Error creating chart:")>>]
             ELSE r

\* opt is the argument: <<>> for None, <<df>> for a DataFrame.
create_population_chart(opt, writable) ==
    IF opt = <<>> \/ IsEmpty(opt[1])
    THEN [exc |-> "", label |-> <<>>, saved |-> FALSE, shown |-> FALSE,
          out |-> <<Line("No data to plot.")>>]
    ELSE LET r == chart_try(opt[1], writable)
         IN  IF r.exc = "" THEN r
             ELSE IF IsException(r.exc)
             THEN [r EXCEPT !.exc = "", !.out = r.out \o <<Line("Error creating chart:")>>]
             ELSE r

\* --------------------------------------------------- analyze_page_content

IsWordChar(c) == c \notin {" ", "-", ".", ",", "[", "]", "/"}

\* len(re.findall(r'\w+', text)): the maximal runs of word characters.
WordCount(text) ==
    Cardinality({i \in 1..Len(text) :
                    IsWordChar(text[i]) /\ (i = 1 \/ ~IsWordChar(text[i - 1]))})

\* A content block is the sequence of its <p> elements, each [a, img, text]:
\* the <a> and <img> elements inside it and its text.
count_attributes_in_section(section_name, content_soup) ==
    LET paragraphs == content_soup
        paragraph_count == Len(paragraphs)
        hyperlink_count == SumSeq([i \in 1..Len(paragraphs) |-> paragraphs[i].a])
        picture_count == SumSeq([i \in 1..Len(paragraphs) |-> paragraphs[i].img])
        word_count == SumSeq([i \in 1..Len(paragraphs) |-> WordCount(paragraphs[i].text)])
    IN  <<LineWith("Section:", section_name,
                   <<paragraph_count, hyperlink_count, picture_count, word_count>>)>>

\* A variant of analyze_headers: the loop is left at the first heading
\* without a content block.
RECURSIVE analyze_headers_stop(_, _)
analyze_headers_stop(section_headers, i) ==
    IF i > Len(section_headers) THEN <<>>
    ELSE LET section_name == section_headers[i].name
             content_div == section_headers[i].div
         IN  IF content_div # <<>>
             THEN count_attributes_in_section(section_name, content_div[1])
                  \o analyze_headers_stop(section_headers, i + 1)
             ELSE <<LineWith("Could not find content for section:", section_name, <<>>)>>

\* Lines 127-134 from heading i on. A heading is [name, div]: its text and
\* header_span.parent.find_next_sibling('div'), <<>> for None, <<block>> for
\* a tag (a bs4 Tag is always true).
RECURSIVE analyze_headers(_, _)
analyze_headers(section_headers, i) ==
    IF i > Len(section_headers) THEN <<>>
    ELSE LET section_name == section_headers[i].name
             content_div == section_headers[i].div
         IN  (IF content_div # <<>>
              THEN count_attributes_in_section(section_name, content_div[1])
              ELSE <<LineWith("Could not find content for section:", section_name, <<>>)>>)
             \o analyze_headers(section_headers, i + 1)

MainContent == <<"M", "a", "i", "n", " ", "C", "o", "n", "t", "e", "n", "t">>

\* A variant of analyze_try: a page without headings is given its notice and
\* nothing is counted.
analyze_try_no_fallback(page) ==
    IF page.fetch # "ok" THEN [exc |-> page.fetch, out |-> <<>>]
    ELSE IF page.parse # "ok" THEN [exc |-> page.parse, out |-> <<>>]
    ELSE IF page.headings = <<>>
    THEN [exc |-> "",
          out |-> <<Line("No main sections found. Analyzing the entire page.")>>]
    ELSE [exc |-> "", out |-> analyze_headers(page.headings, 1)]

\* The body of the try block. A page is [fetch, parse, headings, body]: the
\* outcome of the GET, of BeautifulSoup(...), the span.mw-headline elements and
\* div#mw-content-text (<<>> for None).
analyze_try(page) ==
    IF page.fetch # "ok" THEN [exc |-> page.fetch, out |-> <<>>]
    ELSE IF page.parse # "ok" THEN [exc |-> page.parse, out |-> <<>>]
    ELSE IF page.headings = <<>>
    THEN [exc |-> "",
          out |-> <<Line("No main sections found. Analyzing the entire page.")>>
                  \o (IF page.body # <<>>
                      THEN count_attributes_in_section(MainContent, page.body[1])
                      ELSE <<>>)]
    ELSE [exc |-> "", out |-> analyze_headers(page.headings, 1)]

analyze_page_content(page) ==
    LET start == <<Line("Analyzing page content for:")>>
        r == analyze_try(page)
    IN  IF r.exc = "" THEN [r EXCEPT !.out = start \o r.out]
        ELSE IF IsRequestException(r.exc)
        THEN [exc |-> "", out |-> start \o r.out \o <<Line("Error accessing the URL:")>>]
        ELSE IF IsException(r.exc)
        THEN [exc |-> "", out |-> start \o r.out \o <<Line("An unexpected error occurred:")>>]
        ELSE [r EXCEPT !.out = start \o r.out]

\* --------------------------------------------------------------- __main__

\* Line 159: population_df = scrape_wiki_tables(population_url)
Main_Scrape ==
    /\ pc = "L159"
    /\ LET r == scrape_wiki_tables(population_page)
       IN  /\ out' = out \o r.out
           /\ population_df' = r.ret
           /\ pc' = IF r.exc = "" THEN "L161" ELSE "traceback"
    /\ UNCHANGED <<population_page, fs_writable, stdin, top_10_countries,
                   decision, url, country_col_name, chart_file, chart_shown>>

\* Lines 161-162: the cleaner, called on a non-empty dataset only. The
\* cleaner changes its argument in place, and the argument is population_df.
Main_Clean ==
    /\ pc = "L161"
    /\ IF ~IsEmpty(population_df)
       THEN LET r == clean_and_analyze_population_data(population_df)
            IN  /\ out' = out \o r.out
                /\ population_df' = r.df
                /\ top_10_countries' = r.ret
                /\ pc' = IF r.exc = "" THEN "L164" ELSE "traceback"
       ELSE /\ pc' = "L167"
            /\ UNCHANGED <<out, population_df, top_10_countries>>
    /\ UNCHANGED <<population_page, fs_writable, stdin, decision, url,
                   country_col_name, chart_file, chart_shown>>

\* Lines 164-165: the renderer, called when the cleaner returned a result.
Main_Chart ==
    /\ pc = "L164"
    /\ IF top_10_countries # <<>>
       THEN LET r == create_population_chart(top_10_countries, fs_writable)
            IN  /\ out' = out \o r.out
                /\ country_col_name' = r.label
                /\ chart_file' = (chart_file \/ r.saved)
                /\ chart_shown' = (chart_shown \/ r.shown)
                /\ pc' = IF r.exc = "" THEN "L167" ELSE "traceback"
       ELSE /\ pc' = "L167"
            /\ UNCHANGED <<out, country_col_name, chart_file, chart_shown>>
    /\ UNCHANGED <<population_page, fs_writable, stdin, population_df,
                   top_10_countries, decision, url>>

\* Line 167: decision = 'y'
Main_Decision ==
    /\ pc = "L167"
    /\ decision' = <<"y">>
    /\ pc' = "L168"
    /\ UNCHANGED <<population_page, fs_writable, stdin, population_df,
                   top_10_countries, url, out, country_col_name, chart_file,
                   chart_shown>>

\* Line 168: while decision.lower() == 'y'
Main_While ==
    /\ pc = "L168"
    /\ pc' = IF Lower(decision) = <<"y">> THEN "L169" ELSE "L173"
    /\ UNCHANGED <<population_page, fs_writable, stdin, population_df,
                   top_10_countries, decision, url, out, country_col_name,
                   chart_file, chart_shown>>

\* Line 169: url = input(...): the prompt is written, then a line is read.
Main_InputUrl ==
    /\ pc = "L169"
    /\ stdin # <<>>
    /\ out' = Append(out, Line("Insert the URL of the Wikipedia page you want to analyze: "))
    /\ url' = Head(stdin)
    /\ stdin' = Tail(stdin)
    /\ pc' = "L170"
    /\ UNCHANGED <<population_page, fs_writable, population_df,
                   top_10_countries, decision, country_col_name, chart_file,
                   chart_shown>>

\* Line 170: analyze_page_content(url)
Main_Analyze ==
    /\ pc = "L170"
    /\ LET r == analyze_page_content(url.page)
       IN  /\ out' = out \o r.out
           /\ pc' = IF r.exc = "" THEN "L171" ELSE "traceback"
    /\ UNCHANGED <<population_page, fs_writable, stdin, population_df,
                   top_10_countries, decision, url, country_col_name,
                   chart_file, chart_shown>>

\* Line 171: decision = input(...)
Main_InputDecision ==
    /\ pc = "L171"
    /\ stdin # <<>>
    /\ out' = Append(out, Line("Do you want to analyze another URL? (y/n): "))
    /\ decision' = Head(stdin).text
    /\ stdin' = Tail(stdin)
    /\ pc' = "L168"
    /\ UNCHANGED <<population_page, fs_writable, population_df,
                   top_10_countries, url, country_col_name, chart_file,
                   chart_shown>>

\* Line 173: print("Program terminated.")
Main_Terminated ==
    /\ pc = "L173"
    /\ out' = Append(out, Line("Program terminated."))
    /\ pc' = "exit"
    /\ UNCHANGED <<population_page, fs_writable, stdin, population_df,
                   top_10_countries, decision, url, country_col_name,
                   chart_file, chart_shown>>

Next ==
    \/ Main_Scrape
    \/ Main_Clean
    \/ Main_Chart
    \/ Main_Decision
    \/ Main_While
    \/ Main_InputUrl
    \/ Main_Analyze
    \/ Main_InputDecision
    \/ Main_Terminated

\* ------------------------------------------------------------ environment

\* A page as the section analyzer sees it.
Page(fetch, parse, headings, body) ==
    [fetch |-> fetch, parse |-> parse, headings |-> headings, body |-> body]

\* A typed line: its text, and the page the text resolves to as a URL.
InputLine(text, page) == [text |-> text, page |-> page]

\* A line that is no URL: requests raises MissingSchema for it.
Answer(text) == InputLine(text, Page("MissingSchema", "ok", <<>>, <<>>))

\* What the population URL serves.
Response(fetch, tables) == [fetch |-> fetch, tables |-> tables]

Table(colkind, columns, dtypes, cells) ==
    [colkind |-> colkind, columns |-> columns, dtypes |-> dtypes, cells |-> cells]

\* The state when __main__ starts, for the given environments.
InitWith(pages, writables, scripts) ==
    /\ pc = "L159"
    /\ population_page \in pages
    /\ fs_writable \in writables
    /\ stdin \in scripts
    /\ population_df = EmptyDataFrame
    /\ top_10_countries = <<>>
    /\ decision = <<>>
    /\ url = Answer(<<>>)
    /\ out = <<>>
    /\ country_col_name = <<>>
    /\ chart_file = FALSE
    /\ chart_shown = FALSE

\* Column labels of the sample tables.
Rank == <<"R", "a", "n", "k">>
Name == <<"N", "a", "m", "e">>
CountryDependency == Country \o <<"/">> \o Dependency
PaddedPopulation == <<" ">> \o Population \o <<" ">>
LowerPopulation == <<"p", "o", "p", "u", "l", "a", "t", "i", "o", "n">>
PopulationDensity == Population \o <<" ">> \o <<"d", "e", "n", "s", "i", "t", "y">>

\* The dtype read_html gives a column: int64 when every cell is an int.
ColumnDtype(cells) ==
    IF cells # <<>> /\ \A i \in 1..Len(cells) : cells[i].t = "num"
    THEN "int64" ELSE "object"

\* The table of the population list: a text column of countries, the
\* population and a text column of regions.
PopulationTable(cells) ==
    Table("str", <<CountryDependency, Population, Region>>,
          <<"object", ColumnDtype(cells), "object">>, cells)

\* Population cells as Wikipedia writes them, and an empty cell.
SampleCells ==
    {StrCell(<<"5">>), StrCell(<<"3">>), StrCell(<<"9">>), StrCell(<<"1">>),
     StrCell(<<"N", "/", "A">>), NanCell}

\* ---- the pages of a whole session

\* A table without a "Population" column.
RankTable == Table("str", <<Rank, Name>>, <<"int64", "object">>, <<NumCell(1)>>)

\* A population table whose only text column is the region.
RegionTable ==
    Table("str", <<Population, Region>>, <<"object", "object">>, <<StrCell(<<"5">>)>>)

SessionResponses ==
    {Response("ConnectionError", <<>>),
     Response("HTTPError", <<>>),
     Response("ok", <<>>),
     Response("ok", <<RankTable>>),
     Response("ok", <<RankTable, PopulationTable(<<StrCell(<<"5">>), StrCell(<<"N", "/", "A">>)>>)>>),
     Response("ok", <<PopulationTable(<<StrCell(<<"N", "/", "A">>)>>)>>),
     Response("ok", <<PopulationTable(<<>>)>>),
     Response("ok", <<RegionTable>>)}

Paragraph(a, img, text) == [a |-> a, img |-> img, text |-> text]

Heading(name, div) == [name |-> name, div |-> div]

History == <<"H", "i", "s", "t", "o", "r", "y">>
Notes == <<"N", "o", "t", "e", "s">>

SessionPages ==
    {Page("ok", "ok",
          <<Heading(History, <<<<Paragraph(1, 0, <<"a", " ", "b">>)>>>>),
            Heading(Notes, <<>>)>>,
          <<<<>>>>),
     Page("ok", "ok", <<>>, <<<<Paragraph(0, 1, <<"a">>)>>>>),
     Page("Timeout", "ok", <<>>, <<>>),
     Page("ok", "RecursionError", <<>>, <<>>)}

\* What the user may type: a URL of one of the pages, or an answer.
SessionLines ==
    {InputLine(<<"u">>, p) : p \in SessionPages}
    \cup {Answer(<<"y">>), Answer(<<"Y">>), Answer(<<"n">>),
          Answer(<<"y", "e", "s">>)}

\* Every population response, with at most two lines typed.
InitShort == InitWith(SessionResponses, BOOLEAN, SeqUpTo(SessionLines, 2))

\* One population response, with up to MaxLines lines typed.
InitSession ==
    InitWith({Response("ok", <<RankTable>>)}, {TRUE}, SeqUpTo(SessionLines, MaxLines))

Init == InitShort \/ InitSession

Spec == Init /\ [][Next]_vars

\* ---- the population pages of the pipeline's specifications

\* Nothing typed: the process waits at the first prompt.
InitPipeline(pages, writables) == InitWith(pages, writables, {<<>>})

\* Tables told apart by their label, their kind of labels and their cells.
TableChoices ==
    {Table("str", <<Name, l>>, <<"object", "object">>, <<c>>) :
        l \in {Population, PaddedPopulation, LowerPopulation, PopulationDensity},
        c \in {StrCell(<<"5">>), StrCell(<<"3">>)}}
    \cup {Table("int", <<<<"0">>, <<"1">>>>, <<"object", "object">>, <<StrCell(<<"5">>)>>),
          Table("multi", <<Name, Population>>, <<"object", "object">>, <<StrCell(<<"5">>)>>)}

\* Up to MaxTables tables on the page, or a page that cannot be fetched.
InitTables ==
    \/ InitShort
    \/ \E ts \in SeqUpTo(TableChoices, MaxTables) :
          InitPipeline({Response("ok", ts)}, {TRUE})
    \/ InitPipeline({Response("ConnectionError", <<>>), Response("HTTPError", <<>>)}, {TRUE})

SpecTables == InitTables /\ [][Next]_vars

\* Short numerals in tables long enough for nlargest to cut, with or without
\* a first and a last row that is no number; the sample cells in short
\* tables; int64 columns.
RankCells == {StrCell(<<"1">>), StrCell(<<"2">>)}

NotANumber == {<<>>, <<StrCell(<<"x">>)>>}

InitRank ==
    \/ InitShort
    \/ \E first \in NotANumber, last \in NotANumber, cells \in SeqUpTo(RankCells, MaxRows) :
          InitPipeline({Response("ok", <<PopulationTable(first \o cells \o last)>>)}, {TRUE})
    \/ \E cells \in SeqUpTo(SampleCells, MaxSampleRows)
                      \cup SeqUpTo({NumCell(5), NumCell(12), NumCell(9)}, MaxSampleRows) :
          InitPipeline({Response("ok", <<PopulationTable(cells)>>)}, {TRUE})

SpecRank == InitRank /\ [][Next]_vars

\* Every text of at most MaxText characters over digits, comma and brackets,
\* as the only cell of the table.
TextAlphabet == {"1", "2", ",", "[", "]"}

InitText ==
    \/ InitShort
    \/ \E text \in SeqUpTo(TextAlphabet, MaxText) :
          InitPipeline({Response("ok", <<PopulationTable(<<StrCell(text)>>)>>)}, {TRUE})

SpecText == InitText /\ [][Next]_vars

\* Tables of a "Population" column among at most MaxCols - 1 other columns,
\* each a label and a dtype, no label twice.
LowerCountry == <<"c", "o", "u", "n", "t", "r", "y">>

LabelChoices ==
    {CountryDependency, Country, Dependency, LowerCountry, Name, Region, Date,
     PopulationDensity, Rank}

ColumnChoices == {[label |-> l, dtype |-> d] : l \in LabelChoices, d \in {"object", "int64"}}

\* s with x inserted after its first k elements.
InsertAt(s, k, x) == SubSeq(s, 1, k) \o <<x>> \o SubSeq(s, k + 1, Len(s))

LabelTable(others, k) ==
    LET cols == InsertAt(others, k, [label |-> Population, dtype |-> "object"])
    IN  Table("str", [i \in 1..Len(cols) |-> cols[i].label],
              [i \in 1..Len(cols) |-> cols[i].dtype], <<StrCell(<<"5">>)>>)

\* No label twice.
DistinctLabels(o) == \A i, j \in 1..Len(o) : o[i].label = o[j].label => i = j

InitLabel ==
    \/ InitShort
    \/ \E others \in SeqUpTo(ColumnChoices, MaxCols - 1) :
          /\ DistinctLabels(others)
          /\ \E k \in 0..Len(others) :
                InitPipeline({Response("ok", <<LabelTable(others, k)>>)}, BOOLEAN)

SpecLabel == InitLabel /\ [][Next]_vars

\* ---- the pages of the section analyzer's specification

Paragraphs == {Paragraph(1, 0, <<"a", " ", "b">>), Paragraph(2, 1, <<"a", "-", "b", " ", "c">>)}

Blocks == SeqUpTo(Paragraphs, MaxParas)

\* <<>> for None, <<block>> for a tag.
OptionalBlocks == {<<>>} \cup {<<b>> : b \in Blocks}

Headings == {Heading(n, d) : n \in {History, Notes}, d \in OptionalBlocks}

\* Pages whose fetch or whose parsing fails.
FailingPages ==
    {Page(f, "ok", <<>>, <<>>) : f \in {"ConnectionError", "Timeout", "HTTPError", "MissingSchema"}}
    \cup {Page("ok", "RecursionError", <<>>, <<>>)}

\* The population URL cannot be reached; the user types the URL of the page.
InitPage(page) ==
    InitWith({Response("ConnectionError", <<>>)}, {TRUE}, {<<InputLine(<<"u">>, page)>>})

\* Pages of up to MaxHeadings headings, with or without the body container,
\* and the failing pages.
InitAnalyze ==
    \/ InitShort
    \/ \E hs \in SeqUpTo(Headings, MaxHeadings), body \in OptionalBlocks :
          InitPage(Page("ok", "ok", hs, body))
    \/ \E page \in FailingPages : InitPage(page)

SpecAnalyze == InitAnalyze /\ [][Next]_vars

\* ================================================================ claims

\* The least element of a non-empty set of integers.
Least(S) == CHOOSE x \in S : \A y \in S : x <= y

\* Some entry of standard output carries the message.
Printed(msg) == \E i \in 1..Len(out) : out[i].msg = msg

\* ---------------------------------------------------------------- C1

\* The table has string labels, one of which strips to "Population".
HasPopulationColumn(t) ==
    t.colkind = "str" /\ \E i \in 1..Len(t.columns) : Strip(t.columns[i]) = Population

\* C1: once scrape_wiki_tables has returned for a page whose tables were
\* parsed, its result is the first table in page order that has a column
\* whose stripped name is "Population", and an empty dataset when no table
\* has one.
C1_FirstPopulationTable ==
    (pc = "L161" /\ population_page.fetch = "ok") =>
        LET tables == population_page.tables
            matches == {i \in 1..Len(tables) : HasPopulationColumn(tables[i])}
        IN  IF matches # {}
            THEN population_df = TableFrame(tables[Least(matches)])
            ELSE population_df = EmptyDataFrame

\* ---------------------------------------------------------------- C2

\* The dataset the cleaner was called with: what the extractor returned.
CleanerInput == scrape_wiki_tables(population_page).ret

\* The cleaner has returned a ranked subset.
Ranked == pc = "L164" /\ top_10_countries # <<>>

RankedRows == top_10_countries[1].rows

\* C2: the ranked subset has min(10, valid rows) rows; its rows are distinct
\* valid rows of the input, each with the number its population parses to;
\* no valid row left out has a larger population than a row kept; and the
\* rows are in descending order of population. Populations 5, 3, 9, 1 are
\* returned as 9, 5, 3, 1.
C2_RankedSubset ==
    Ranked =>
        LET input == CleanerInput.rows
            parsed == [i \in 1..Len(input) |-> CleanCell(input[i].pop)]
            valid == {i \in 1..Len(input) : parsed[i] # <<>>}
            ranked == RankedRows
            kept == {ranked[k].idx + 1 : k \in 1..Len(ranked)}
        IN  /\ Len(ranked) = IF Cardinality(valid) < 10 THEN Cardinality(valid) ELSE 10
            /\ \A k \in 1..Len(ranked) :
                  /\ ranked[k].idx + 1 \in valid
                  /\ ranked[k].pop = NumCell(parsed[ranked[k].idx + 1][1])
            /\ Cardinality(kept) = Len(ranked)
            /\ \A k \in 1..(Len(ranked) - 1) : ranked[k].pop.n >= ranked[k + 1].pop.n
            /\ \A i \in valid \ kept :
                  \A k \in 1..Len(ranked) : parsed[i][1] <= ranked[k].pop.n
            /\ [i \in 1..Len(input) |-> input[i].pop]
                  = <<StrCell(<<"5">>), StrCell(<<"3">>), StrCell(<<"9">>), StrCell(<<"1">>)>>
               => [k \in 1..Len(ranked) |-> ranked[k].pop.n] = <<9, 5, 3, 1>>

\* Twelve rows, eleven of them numbers of both values: ten are kept, the
\* largest first.
C2_Witness ==
    /\ Ranked
    /\ Len(population_page.tables[1].cells) = 12
    /\ Len(population_df.rows) = 11
    /\ Len(RankedRows) = 10
    /\ RankedRows[1].pop.n = 2
    /\ RankedRows[10].pop.n = 1

\* ---------------------------------------------------------------- C3

\* The text of the cell after the commas and the [digits] markers are
\* removed is no numeral.
Unparseable(cell) ==
    LET text == RemoveFootnotes(RemoveCommas(AsStr(cell)), 1)
    IN  text = <<>> \/ \E j \in 1..Len(text) : ~IsDigit(text[j])

\* C3: once the cleaner has returned, no row whose population is unparseable
\* is left in the dataset or in the ranked subset, every other row is left in
\* the dataset in its place, and the mean reported is the sum of the
\* populations left over their number.
C3_UnparseableRowsDropped ==
    Ranked =>
        LET input == CleanerInput.rows
            dropped == {i \in 1..Len(input) : Unparseable(input[i].pop)}
            left == [k \in 1..Len(population_df.rows) |-> population_df.rows[k].idx + 1]
        IN  /\ \A k \in 1..Len(left) : left[k] \notin dropped
            /\ \A k \in 1..Len(RankedRows) : RankedRows[k].idx + 1 \notin dropped
            /\ Len(left) = Len(input) - Cardinality(dropped)
            /\ \A k \in 1..(Len(left) - 1) : left[k] < left[k + 1]
            /\ \E k \in 1..Len(out) :
                  /\ out[k].msg = "The average population is:"
                  /\ out[k].args =
                        <<SumSeq([j \in 1..Len(left) |-> CleanCell(input[left[j]].pop)[1]]),
                          Len(input) - Cardinality(dropped)>>

\* A table of a number, "N/A" and a number.
C3_Witness ==
    /\ Ranked
    /\ Len(population_page.tables[1].cells) = 3
    /\ population_page.tables[1].cells[2] = StrCell(<<"N", "/", "A">>)
    /\ Len(population_df.rows) = 2
    /\ Len(RankedRows) = 2

\* ---------------------------------------------------------------- C4

NotComma(c) == c # ","

AllDigits(s) == \A i \in 1..Len(s) : IsDigit(s[i])

\* Digit groups separated by single commas: \d+(,\d+)*
IsGrouped(s) ==
    /\ s # <<>>
    /\ IsDigit(s[1])
    /\ IsDigit(s[Len(s)])
    /\ \A i \in 1..Len(s) : IsDigit(s[i]) \/ s[i] = ","
    /\ \A i \in 1..(Len(s) - 1) : ~(s[i] = "," /\ s[i + 1] = ",")

\* A run of footnote markers: (\[\d+\])*
RECURSIVE IsMarkers(_)
IsMarkers(s) ==
    \/ s = <<>>
    \/ \E j \in 3..Len(s) :
          /\ s[1] = "["
          /\ AllDigits(SubSeq(s, 2, j - 1))
          /\ s[j] = "]"
          /\ IsMarkers(SubSeq(s, j + 1, Len(s)))

\* The integer a numeral denotes, read from its first digit on.
RECURSIVE NumeralValue(_, _)
NumeralValue(s, acc) ==
    IF s = <<>> THEN acc ELSE NumeralValue(Tail(s), 10 * acc + DigitVal(Head(s)))

\* The only population cell of the page's table, and what the cleaner left of it.
CellText == population_page.tables[1].cells[1].s

OneTextCell ==
    /\ Ranked
    /\ Len(population_page.tables) = 1
    /\ Len(population_page.tables[1].cells) = 1
    /\ population_page.tables[1].cells[1].t = "str"

\* C4: a cell of comma-separated digit groups followed by [digits] markers is
\* cleaned to the integer its digits outside the markers form; and commas are
\* removed before the markers are matched, so that a cell which has that form
\* once its commas are deleted (a comma inside the brackets, say) is cleaned
\* to the integer of its leading digits as well.
C4_CleanedToExactInteger ==
    OneTextCell =>
        LET s == CellText
            bare == SelectSeq(s, NotComma)
            cleaned == [k \in 1..Len(population_df.rows) |-> population_df.rows[k].pop]
        IN  /\ \A k \in 1..Len(s) :
                  (IsGrouped(SubSeq(s, 1, k)) /\ IsMarkers(SubSeq(s, k + 1, Len(s)))) =>
                      cleaned = <<NumCell(NumeralValue(SelectSeq(SubSeq(s, 1, k), IsDigit), 0))>>
            /\ \A k \in 1..Len(bare) :
                  (AllDigits(SubSeq(bare, 1, k)) /\ IsMarkers(SubSeq(bare, k + 1, Len(bare)))) =>
                      cleaned = <<NumCell(NumeralValue(SubSeq(bare, 1, k), 0))>>

\* "1,2[1]" is cleaned to 12.
C4_Witness ==
    /\ OneTextCell
    /\ CellText = <<"1", ",", "2", "[", "1", "]">>
    /\ population_df.rows = <<[idx |-> 0, pop |-> NumCell(12)]>>
    /\ RankedRows = <<[idx |-> 0, pop |-> NumCell(12)]>>

\* ---------------------------------------------------------------- C5

\* The renderer has returned from a call with a ranked subset that is not empty.
Charted == pc = "L167" /\ top_10_countries # <<>> /\ ~IsEmpty(top_10_countries[1])

\* C5: the label column is the first column named after "Country" or
\* "Dependency"; when there is none, the first object column named after none
\* of "Population", "Region", "Date"; when there is none either, no label is
\* chosen, the condition is reported and no chart file is written. Of
\* "Country/Dependency", "Population", "Region" the first is chosen.
C5_LabelColumn ==
    Charted =>
        LET cols == top_10_countries[1].columns
            dtypes == top_10_countries[1].dtypes
            named == {i \in 1..Len(cols) :
                         Contains(cols[i], Country) \/ Contains(cols[i], Dependency)}
            texts == {i \in 1..Len(cols) :
                         /\ dtypes[i] = "object"
                         /\ ~Contains(cols[i], Population)
                         /\ ~Contains(cols[i], Region)
                         /\ ~Contains(cols[i], Date)}
        IN  /\ named # {} => country_col_name = <<cols[Least(named)]>>
            /\ (named = {} /\ texts # {}) => country_col_name = <<cols[Least(texts)]>>
            /\ (named = {} /\ texts = {}) =>
                  /\ country_col_name = <<>>
                  /\ ~chart_file
                  /\ ~chart_shown
                  /\ out[Len(out)].msg =
                        "Error creating chart: Could not find a suitable column for countries."
            /\ cols = <<CountryDependency, Population, Region>> =>
                  country_col_name = <<CountryDependency>>

\* The chart of the population list, labelled by "Country/Dependency".
C5_Witness ==
    /\ Charted
    /\ top_10_countries[1].columns = <<CountryDependency, Population, Region>>
    /\ country_col_name = <<CountryDependency>>
    /\ chart_file

\* ---------------------------------------------------------------- C6

Greatest(S) == CHOOSE x \in S : \A y \in S : y <= x

\* The section analyzer has returned for a page that was fetched and parsed.
Analyzed == pc = "L171" /\ url.page.fetch = "ok" /\ url.page.parse = "ok"

\* What the last call of the section analyzer printed after its first line.
AnalysisOutput ==
    LET start == Greatest({i \in 1..Len(out) : out[i].msg = "Analyzing page content for:"})
    IN  SubSeq(out, start + 1, Len(out))

\* The sections reported by the last call, with their counts.
ReportedSections == SelectSeq(AnalysisOutput, LAMBDA l : l.msg = "Section:")

\* The counts of a content block.
CountsOf(block) ==
    <<Len(block),
      SumSeq([i \in 1..Len(block) |-> block[i].a]),
      SumSeq([i \in 1..Len(block) |-> block[i].img]),
      SumSeq([i \in 1..Len(block) |-> WordCount(block[i].text)])>>

\* C6 as stated: for every page fetched (and parsed) that has no section
\* heading, exactly one section is reported, "Main Content".
C6_AlwaysMainContent ==
    (Analyzed /\ url.page.headings = <<>>) =>
        /\ Len(ReportedSections) = 1
        /\ ReportedSections[1].name = MainContent

\* C6, amended: for every page fetched and parsed that has no section heading,
\* the analyzer prints its notice; when the page has a main content container
\* exactly one section is reported, "Main Content", with the counts of the
\* container; when it has none, no section is reported.
C6_MainContentWhenContainer ==
    (Analyzed /\ url.page.headings = <<>>) =>
        /\ AnalysisOutput[1] = Line("No main sections found. Analyzing the entire page.")
        /\ url.page.body # <<>> =>
              ReportedSections = <<LineWith("Section:", MainContent, CountsOf(url.page.body[1]))>>
        /\ url.page.body = <<>> => ReportedSections = <<>>
        /\ Len(AnalysisOutput) = 1 + Len(ReportedSections)

\* A page without headings whose container holds a paragraph.
C6_Witness ==
    /\ Analyzed
    /\ url.page.headings = <<>>
    /\ url.page.body # <<>>
    /\ Len(url.page.body[1]) = 1
    /\ Len(ReportedSections) = 1
    /\ ReportedSections[1].args[1] = 1

\* ---------------------------------------------------------------- C7

\* C7: for a page with n >= 1 headings the analyzer prints exactly n outcomes,
\* the i-th for the i-th heading: the section's counts, computed over the
\* block that follows the heading, or the report that the section has no
\* content when no block follows.
C7_OneOutcomePerHeading ==
    (Analyzed /\ url.page.headings # <<>>) =>
        LET hs == url.page.headings
        IN  /\ Len(AnalysisOutput) = Len(hs)
            /\ \A i \in 1..Len(hs) :
                  AnalysisOutput[i] =
                      IF hs[i].div = <<>>
                      THEN LineWith("Could not find content for section:", hs[i].name, <<>>)
                      ELSE LineWith("Section:", hs[i].name, CountsOf(hs[i].div[1]))

\* A heading without a block, followed by a heading with one.
C7_Witness ==
    /\ Analyzed
    /\ Len(url.page.headings) = 2
    /\ url.page.headings[1].div = <<>>
    /\ url.page.headings[2].div # <<>>
    /\ AnalysisOutput[1].msg = "Could not find content for section:"
    /\ AnalysisOutput[2].msg = "Section:"

\* ---------------------------------------------------------------- C8

\* The entries of standard output that mark the steps of __main__.
IsStep(l) ==
    l.msg \in {"Attempting to scrape tables from:",
               "Insert the URL of the Wikipedia page you want to analyze: ",
               "Analyzing page content for:",
               "Do you want to analyze another URL? (y/n): ",
               "Program terminated."}

Steps == [i \in 1..Len(SelectSeq(out, IsStep)) |-> SelectSeq(out, IsStep)[i].msg]

\* The answer is "y" up to case.
IsYes(answer) == answer \in {<<"y">>, <<"Y">>}

\* C8: the pipeline starts once, before anything else; then URL prompt,
\* analysis and continue prompt follow each other in rounds; a round is
\* started only while the last answer is "y" up to case, and the loop is left
\* only on another answer; "Program terminated." is printed on leaving, as
\* the last line of output.
C8_InteractiveLoop ==
    LET steps == Steps
    IN  /\ pc # "L159" => (steps # <<>> /\ steps[1] = "Attempting to scrape tables from:")
        /\ \A i \in 2..Len(steps) :
              \/ /\ (i - 2) % 3 = 0
                 /\ steps[i] = "Insert the URL of the Wikipedia page you want to analyze: "
              \/ /\ (i - 2) % 3 = 1
                 /\ steps[i] = "Analyzing page content for:"
              \/ /\ (i - 2) % 3 = 2
                 /\ steps[i] = "Do you want to analyze another URL? (y/n): "
              \/ /\ (i - 2) % 3 = 0
                 /\ i = Len(steps)
                 /\ i > 2
                 /\ steps[i] = "Program terminated."
        /\ pc \in {"L169", "L170", "L171"} => IsYes(decision)
        /\ pc \in {"L173", "exit"} => ~IsYes(decision)
        /\ pc = "L170" => (Len(steps) - 1) % 3 = 1
        /\ pc = "L171" => (Len(steps) - 1) % 3 = 2
        /\ pc = "exit" <=> (out # <<>> /\ out[Len(out)].msg = "Program terminated.")
        /\ Printed("Program terminated.") => pc = "exit"

\* Two rounds, the second after the answer "Y", left on the answer "n".
C8_Witness ==
    /\ pc = "exit"
    /\ Len(Steps) = 8
    /\ decision = <<"n">>
    /\ stdin = <<>>

\* ---------------------------------------------------------------- C9

\* The page of the last URL made the section analyzer fail.
AnalysisFailed == url.page.fetch # "ok" \/ url.page.parse # "ok"

\* The lines of __main__, and the end of the process.
MainLines == {"L159", "L161", "L164", "L167", "L168", "L169", "L170", "L171", "L173", "exit"}

\* C9: no exception leaves a pipeline step (the process is at a line of
\* __main__, never in a traceback); each failure is reported (a failed fetch,
\* a page whose tables cannot be parsed, a chart that cannot be written, a
\* failed analysis); whatever follows the report of a failed analysis is the
\* continue prompt, which is issued as soon as a line is typed; and the loop
\* is left only on an answer other than "y".
C9_NoErrorIsFatal ==
    /\ pc \in MainLines
    /\ (pc # "L159" /\ population_page.fetch # "ok") => Printed("Error accessing the URL:")
    /\ (pc # "L159" /\ population_page.fetch = "ok"
          /\ \/ population_page.tables = <<>>
             \/ \E i \in 1..Len(population_page.tables) :
                   /\ population_page.tables[i].colkind # "str"
                   /\ \A j \in 1..(i - 1) : ~HasPopulationColumn(population_page.tables[j]))
          => Printed("Error scraping tables:")
    /\ (pc \notin {"L159", "L161", "L164"} /\ top_10_countries # <<>>
          /\ ~IsEmpty(top_10_countries[1]) /\ country_col_name # <<>> /\ ~fs_writable)
          => Printed("Error creating chart:")
    /\ (pc = "L171" /\ url.page.fetch # "ok")
          => out[Len(out)].msg = "Error accessing the URL:"
    /\ (pc = "L171" /\ url.page.fetch = "ok" /\ url.page.parse # "ok")
          => out[Len(out)].msg = "An unexpected error occurred:"
    /\ \A i \in 1..(Len(out) - 1) :
          (/\ out[i].msg \in {"Error accessing the URL:", "An unexpected error occurred:"}
           /\ \E j \in 1..(i - 1) : out[j].msg = "Analyzing page content for:")
          => out[i + 1].msg = "Do you want to analyze another URL? (y/n): "
    /\ (pc = "L171" /\ AnalysisFailed /\ stdin # <<>>) => ENABLED Main_InputDecision
    /\ (pc \in {"L173", "exit"}) => ~IsYes(decision)

\* Every step failed (the population fetch, then an analysis), and the
\* continue prompt has been answered.
C9_Witness ==
    /\ pc = "L168"
    /\ population_page.fetch # "ok"
    /\ AnalysisFailed
    /\ url.page.parse = "RecursionError"
    /\ out[Len(out)].msg = "Do you want to analyze another URL? (y/n): "

\* --------------------------------------------------------------- C10

CleanerPrinted ==
    \/ Printed("Data successfully cleaned and converted to numeric.")
    \/ Printed("Data is not a valid DataFrame or 'Population' column is missing.")
    \/ Printed("Error during data cleaning or analysis:")

RendererPrinted ==
    \/ Printed("No data to plot.")
    \/ Printed("Chart saved to:")
    \/ Printed("Error creating chart:")
    \/ Printed("Error creating chart: Could not find a suitable column for countries.")

\* C10: the cleaner runs only on a non-empty dataset from the extractor; it
\* returns no result for a dataset without a "Population" column; the
\* renderer runs only on a result of the cleaner; it writes and shows the
\* chart only for a non-empty ranked subset, and otherwise reports that there
\* is no data to plot. So the chart file is written only when the page was
\* fetched, a table matched and some population parsed.
C10_ShortCircuit ==
    /\ CleanerPrinted => ~IsEmpty(CleanerInput)
    /\ \A i \in 1..Len(population_page.tables) :
          (~HasPopulationColumn(population_page.tables[i])
             /\ population_page.tables[i].colkind = "str") =>
              clean_and_analyze_population_data(TableFrame(population_page.tables[i])).ret = <<>>
    /\ RendererPrinted => (CleanerPrinted /\ top_10_countries # <<>>)
    /\ (chart_file \/ chart_shown) => (top_10_countries # <<>> /\ ~IsEmpty(top_10_countries[1]))
    /\ (pc \notin {"L159", "L161", "L164"} /\ top_10_countries # <<>> /\ IsEmpty(top_10_countries[1]))
          => (Printed("No data to plot.") /\ ~chart_file /\ ~chart_shown)
    /\ chart_file =>
          /\ population_page.fetch = "ok"
          /\ \E i \in 1..Len(population_page.tables) :
                /\ HasPopulationColumn(population_page.tables[i])
                /\ \E k \in 1..Len(population_page.tables[i].cells) :
                      ~Unparseable(population_page.tables[i].cells[k])

\* A matching table none of whose populations parses: the renderer is
\* called and writes nothing.
C10_Witness ==
    /\ pc = "L167"
    /\ top_10_countries # <<>>
    /\ IsEmpty(top_10_countries[1])
    /\ Printed("No data to plot.")
    /\ ~chart_file

====
